---- MODULE Spec2Model ----
(***************************************************************************)
(* Model of stu, a study-tracking CLI (src/src/stu/mod.rs,                 *)
(* src/src/stu/utils.rs, src/src/main.rs).                                 *)
(*                                                                         *)
(* Text is modelled as a sequence of tokens.  A token is one character     *)
(* ("[", "]", " ", "0", "a", ...) or one indivisible piece of the fixed    *)
(* template text ("Subject", "type here", ...).  A template is a sequence  *)
(* of lines, as produced by str::lines().                                  *)
(*                                                                         *)
(* The code returns Err(()) for every failure; the error kinds used below  *)
(* name the diagnostic that the code prints before returning:              *)
(*   UnmodifiedField  "a field was left unchanged, log was not added"      *)
(*   InvalidNumber    "Failed to read log file: ... at line N"             *)
(*   IOError          "Could not read json filepath"                       *)
(*   ParseError       "Could not create json object from string"           *)
(*   SchemaError      "Value `Name` not found", "Value `logs` not found",  *)
(*                    "Could not deserialize json into log struct"         *)
(*   NotFound         "... not found"                                      *)
(***************************************************************************)
EXTENDS Integers, Sequences, FiniteSets, TLC

VARIABLES pc, file, mem, tf, orig, res, arg, out

vars == <<pc, file, mem, tf, orig, res, arg, out>>

(***************************************************************************)
(* Bounds of the model.                                                    *)
(***************************************************************************)
\* longest text a user types into the Subject or Topic brackets of a new log
MaxTextLen == 1
\* longest text a user types into a numeric field of a new log
MaxNumLen == 2
\* longest text a user types into the Subject or Topic brackets when editing
MaxEditTextLen == 1
\* longest text a user types into a numeric field when editing
MaxEditNumLen == 1
\* journal entries of a hand-written document
MaxDocJournals == 2
\* log entries of one journal of a hand-written document
MaxDocLogs == 1
\* journals of the document the commands build
MaxJournals == 2
\* logs of a document on which an edit is tried
MaxEditLogs == 1
\* logs, over all journals, of the document the commands build
MaxLogs == 2

(***************************************************************************)
(* Sequences of tokens.                                                    *)
(***************************************************************************)
SeqsUpTo(S, n) == UNION {[1..k -> S] : k \in 0..n}

DigitChars == <<"0", "1", "2", "3", "4", "5", "6", "7", "8", "9">>

IsDigit(c) == \E d \in 1..10 : DigitChars[d] = c

DigitVal(c) == (CHOOSE d \in 1..10 : DigitChars[d] = c) - 1

\* usize / u32 Display: the decimal digits, no padding
RECURSIVE to_string(_)
to_string(n) ==
    IF n < 10 THEN <<DigitChars[n + 1]>>
    ELSE to_string(n \div 10) \o <<DigitChars[(n % 10) + 1]>>

RECURSIVE DigitsValue(_, _)
DigitsValue(s, acc) ==
    IF s = <<>> THEN acc ELSE DigitsValue(Tail(s), acc * 10 + DigitVal(Head(s)))

\* str::parse::<usize>(): an optional "+" followed by one or more decimal
\* digits; anything else (empty, "-", a letter, a blank) is an error.  The
\* overflow error of values above usize::MAX is out of reach of the bounds.
parse(s) ==
    LET digits == IF s # <<>> /\ Head(s) = "+" THEN Tail(s) ELSE s
    IN  IF digits # <<>> /\ \A i \in 1..Len(digits) : IsDigit(digits[i])
        THEN [ok |-> TRUE, v |-> DigitsValue(digits, 0)]
        ELSE [ok |-> FALSE, v |-> 0]

\* str::trim(): drop the blanks at both ends
RECURSIVE TrimStart(_)
TrimStart(s) == IF s # <<>> /\ Head(s) = " " THEN TrimStart(Tail(s)) ELSE s

RECURSIVE TrimEnd(_)
TrimEnd(s) ==
    IF s # <<>> /\ s[Len(s)] = " " THEN TrimEnd(SubSeq(s, 1, Len(s) - 1)) ELSE s

trim(s) == TrimEnd(TrimStart(s))

remove_brackets(string) ==
    SelectSeq(string, LAMBDA c : c # "[" /\ c # "]")

(***************************************************************************)
(* Percentage (f32).  A value is a finite number, NaN or +infinity.        *)
(***************************************************************************)
Num(n) == [k |-> "num", v |-> n]
NaN == [k |-> "nan", v |-> 0]
Infinity == [k |-> "inf", v |-> 0]

\* f32::round of a non-negative quotient a / b: half away from zero
round(a, b) == (2 * a + b) \div (2 * b)

\* (amount * 100.0) / total, rounded: 0.0 / 0.0 is NaN, x / 0.0 is +infinity
get_percentage(amount, total) ==
    IF total = 0
    THEN IF amount = 0 THEN NaN ELSE Infinity
    ELSE Num(round(amount * 100, total))

(***************************************************************************)
(* Log and Journal.                                                        *)
(***************************************************************************)
Unknown == <<"unknown">>

\* Log::new(): the uid is the sub-second nanoseconds of the clock in decimal
Log_new(nanos) ==
    [subject |-> Unknown, topic |-> Unknown, date |-> Unknown,
     uid |-> to_string(nanos),
     total_questions |-> 0, right_answers |-> 0, percentage |-> Num(0)]

Journal_new(name) == [name |-> name, logs |-> <<>>]

add_log(journal, log) == [journal EXCEPT !.logs = Append(@, log)]

(***************************************************************************)
(* Template codec.                                                         *)
(***************************************************************************)
Placeholder == <<"[", "type here", "]">>

Bracketed(v) == <<"[">> \o v \o <<"]">>

\* the four labelled blocks that end both templates
fields(s, t, q, a) ==
    << <<"Subject">>, s, <<>>,
       <<"Topic">>, t, <<>>,
       <<"Total Questions">>, q, <<>>,
       <<"Right Answers">>, a >>

\* the text make_log writes for a new log of journal `name`
make_log_text(name, date) ==
    << <<"STU Note Builder">>,
       <<"Journal: ">> \o name,
       <<"Date: ">> \o date,
       <<>>,
       <<"------------------">>,
       <<>>,
       <<"**TYPE INSIDE BRACKETS**">>,
       <<"*edit, save and exit*">>,
       <<"*to cancel just leave some field unchanged*">>,
       <<>> >>
    \o fields(Placeholder, Placeholder, Placeholder, Placeholder)

\* the text edit_log writes for an existing log
edit_log_text(log) ==
    << <<"STU Note edit">>,
       <<>>,
       <<"------------------">>,
       <<>>,
       <<"**TYPE INSIDE BRACKETS**">>,
       <<"*edit, save and exit*">>,
       <<"*to cancel just leave some field unchanged*">>,
       <<>> >>
    \o fields(Bracketed(log.subject), Bracketed(log.topic),
              Bracketed(to_string(log.total_questions)),
              Bracketed(to_string(log.right_answers)))

NoLog ==
    [subject |-> <<>>, topic |-> <<>>, date |-> <<>>, uid |-> <<>>,
     total_questions |-> 0, right_answers |-> 0, percentage |-> Num(0)]

OkLog(log) == [kind |-> "Ok", line |-> 0, log |-> log]

ErrLog(kind, line) == [kind |-> kind, line |-> line, log |-> NoLog]

line_number_zero_based(next0) == next0

\* next.0 is the 0-based index that enumerate() gives the peeked line
line_number(next0) == next0 + 1

\* The loop of log_from_tf from the i-th line (1-based) on.  The body runs
\* only while a next line exists (lines.peek()).
RECURSIVE log_from_tf_loop(_, _, _)
log_from_tf_loop(lines, i, log) ==
    IF i > Len(lines) THEN
        OkLog([log EXCEPT !.percentage =
                   get_percentage(log.right_answers, log.total_questions)])
    ELSE IF i = Len(lines) THEN log_from_tf_loop(lines, i + 1, log)
    ELSE
        LET current == trim(lines[i])
            next_line == lines[i + 1]
            number == parse(remove_brackets(next_line))
        IN  IF current = Placeholder THEN ErrLog("UnmodifiedField", 0)
            ELSE IF current = <<"Subject">> THEN
                log_from_tf_loop(lines, i + 1,
                                 [log EXCEPT !.subject = remove_brackets(next_line)])
            ELSE IF current = <<"Topic">> THEN
                log_from_tf_loop(lines, i + 1,
                                 [log EXCEPT !.topic = remove_brackets(next_line)])
            ELSE IF current = <<"Total Questions">> THEN
                IF number.ok
                THEN log_from_tf_loop(lines, i + 1,
                                      [log EXCEPT !.total_questions = number.v])
                ELSE ErrLog("InvalidNumber", line_number(i))
            ELSE IF current = <<"Right Answers">> THEN
                IF number.ok
                THEN log_from_tf_loop(lines, i + 1,
                                      [log EXCEPT !.right_answers = number.v])
                ELSE ErrLog("InvalidNumber", line_number(i))
            ELSE log_from_tf_loop(lines, i + 1, log)

\* nanos: the clock reading Log::new() takes
log_from_tf(buf, nanos) == log_from_tf_loop(buf, 1, Log_new(nanos))

\* make_log after the editor returned `buf`: parse, then stamp the date
make_log(buf, date, nanos) ==
    LET r == log_from_tf(buf, nanos)
    IN  IF r.kind = "Ok" THEN OkLog([r.log EXCEPT !.date = date]) ELSE r

edit_log_fresh_uid(log, buf, nanos) ==
    LET r == log_from_tf(buf, nanos)
    IN  IF r.kind = "Ok" THEN OkLog([r.log EXCEPT !.date = log.date]) ELSE r

\* edit_log after the editor returned `buf`: parse, then restore uid and date
edit_log(log, buf, nanos) ==
    LET r == log_from_tf(buf, nanos)
    IN  IF r.kind = "Ok"
        THEN OkLog([r.log EXCEPT !.uid = log.uid, !.date = log.date])
        ELSE r

(***************************************************************************)
(* What the user does in the editor: replaces value lines.                 *)
(***************************************************************************)
\* index of the line that follows the first line reading `label`
ValueLine(text, label) ==
    1 + (CHOOSE i \in 1..Len(text) :
            /\ text[i] = <<label>>
            /\ \A j \in 1..(i - 1) : text[j] # <<label>>)

Value(text, label) == text[ValueLine(text, label)]

\* The template with its four value lines replaced; both templates end with
\* the four blocks of fields(), so the value lines are the 10th, 7th and 4th
\* line from the end and the last line.
UserEdit(text, s, t, q, a) ==
    LET n == Len(text)
    IN  [text EXCEPT ![n - 9] = s, ![n - 6] = t, ![n - 3] = q, ![n] = a]

(***************************************************************************)
(* The document (data.json) and the persistence layer.                     *)
(*                                                                         *)
(* A document is what serde_json reads from the file: `top` tells whether   *)
(* the file could be read, parsed, and whether its top level is an array.  *)
(* A journal entry records whether `name` is a string, and whether `logs`  *)
(* is an array, null/missing, or some other value.  A log entry records in *)
(* `has` the keys that are present with the type the Log struct needs.     *)
(***************************************************************************)
LogFields ==
    {"subject", "topic", "date", "uid",
     "total_questions", "right_answers", "percentage"}

Null == [k |-> "null", v |-> 0]

\* serde_json writes and reads a non-finite float as null
to_value(percentage) == IF percentage.k = "num" THEN percentage ELSE Null

\* #[derive(Serialize)] of Log
Log_serialize(log) ==
    [has |-> LogFields,
     subject |-> log.subject, topic |-> log.topic, date |-> log.date,
     uid |-> log.uid,
     total_questions |-> log.total_questions,
     right_answers |-> log.right_answers,
     percentage |-> to_value(log.percentage)]

\* #[derive(Serialize)] of Journal
Journal_serialize(journal) ==
    [has_name |-> TRUE, name |-> journal.name, logs_kind |-> "array",
     logs |-> [i \in 1..Len(journal.logs) |-> Log_serialize(journal.logs[i])]]

\* serde_json::to_string(&journals)
serde_json_to_string(journals) ==
    [top |-> "array",
     journals |-> [i \in 1..Len(journals) |-> Journal_serialize(journals[i])]]

\* setup_data writes "[\n]" when the file does not exist
EmptyDocument == [top |-> "array", journals |-> <<>>]

\* as_u64().unwrap_or(0) of a numeric key
as_u64_or_0(log_value, key) ==
    IF key \in log_value.has
    THEN (IF key = "total_questions" THEN log_value.total_questions
          ELSE log_value.right_answers)
    ELSE 0

set_percentage_keep_stored(log_value) == log_value

\* log_value["percentage"] = to_value(get_percentage(right, total))
set_percentage(log_value) ==
    [log_value EXCEPT
        !.percentage = to_value(get_percentage(as_u64_or_0(log_value, "right_answers"),
                                               as_u64_or_0(log_value, "total_questions"))),
        !.has = @ \cup {"percentage"}]

\* serde_json::from_str::<Log>: every field of the struct is required, and
\* null is not an f32
Log_deserialize(log_value) ==
    IF log_value.has = LogFields /\ log_value.percentage.k = "num"
    THEN [ok |-> TRUE,
          log |-> [subject |-> log_value.subject, topic |-> log_value.topic,
                   date |-> log_value.date, uid |-> log_value.uid,
                   total_questions |-> log_value.total_questions,
                   right_answers |-> log_value.right_answers,
                   percentage |-> log_value.percentage]]
    ELSE [ok |-> FALSE, log |-> NoLog]

\* the inner loops of get_journals over journal_value["logs"].as_array()
RECURSIVE get_logs(_, _, _)
get_logs(log_objs, i, journal) ==
    IF i > Len(log_objs) THEN [ok |-> TRUE, journal |-> journal]
    ELSE LET d == Log_deserialize(set_percentage(log_objs[i]))
         IN  IF d.ok THEN get_logs(log_objs, i + 1, add_log(journal, d.log))
             ELSE [ok |-> FALSE, journal |-> journal]

Loaded(kind, journals) == [kind |-> kind, journals |-> journals]

\* journal_value["logs"].is_null() has returned false when this is reached;
\* as_array() of a value that is not an array is None and the loop is skipped
logs_as_array(journal_value) ==
    IF journal_value.logs_kind = "array" THEN journal_value.logs ELSE <<>>

logs_is_null(journal_value) == journal_value.logs_kind = "null"

\* the outer loop of get_journals over objects.as_array()
RECURSIVE get_journals_loop(_, _, _)
get_journals_loop(journal_objs, i, journals) ==
    IF i > Len(journal_objs) THEN Loaded("Ok", journals)
    ELSE LET journal_value == journal_objs[i]
             r == get_logs(logs_as_array(journal_value), 1,
                           Journal_new(journal_value.name))
         IN  IF ~journal_value.has_name THEN Loaded("SchemaError", <<>>)
             ELSE IF logs_is_null(journal_value) THEN Loaded("SchemaError", <<>>)
             ELSE IF ~r.ok THEN Loaded("SchemaError", <<>>)
             ELSE get_journals_loop(journal_objs, i + 1, Append(journals, r.journal))

get_journals(doc) ==
    IF doc.top = "unreadable" THEN Loaded("IOError", <<>>)
    ELSE IF doc.top = "invalid" THEN Loaded("ParseError", <<>>)
    ELSE IF doc.top # "array" THEN Loaded("Ok", <<>>)
    ELSE get_journals_loop(doc.journals, 1, <<>>)

(***************************************************************************)
(* Inputs: what the user types in the editor, the clock, and documents     *)
(* written by hand.                                                        *)
(***************************************************************************)
TextChars == {"a", "type here"}
NumChars == {"0", "1", "2", "-", "a"}
EditNumChars == {"0", "2", "a"}

\* a value typed inside the brackets or typed over them, and the placeholder
\* followed by a blank
TextLines ==
    LET V == SeqsUpTo(TextChars, MaxTextLen)
    IN  {Bracketed(v) : v \in V} \cup V \cup {Placeholder \o <<" ">>}

NumLines == {Bracketed(v) : v \in SeqsUpTo(NumChars, MaxNumLen)} \cup {Placeholder}

CoreTextLines == {Bracketed(<<"a">>), Placeholder}
CoreNumLines == {Bracketed(<<"2">>), Bracketed(<<"a">>), Placeholder}

\* The four value lines <<subject, topic, total, right>> of a new-log
\* template as the user leaves them: any text lines with the common numeric
\* lines, or the common text lines with any numeric lines.
TemplateInputs ==
    (TextLines \X TextLines \X CoreNumLines \X CoreNumLines)
    \cup (CoreTextLines \X CoreTextLines \X NumLines \X NumLines)

\* the lines typed by the commands that write the document
CmdSubjectLines == {Bracketed(<<"a">>), Bracketed(<<"A">>), <<"type here">>, Placeholder}
CmdTopicLines == {Bracketed(<<"b">>)}
CmdTotalLines == {Bracketed(<<"0">>), Bracketed(<<"2">>)}
CmdRightLines == {Bracketed(<<"1">>), Bracketed(<<"2">>)}

\* a value line of the edit template: left as rendered, or retyped
EditTextLines(old) ==
    {old} \cup {Bracketed(v) : v \in SeqsUpTo(TextChars, MaxEditTextLen)}

EditNumLines(old) ==
    {old} \cup {Bracketed(v) : v \in SeqsUpTo(EditNumChars, MaxEditNumLen)}

\* The four value lines of an edit template as the user leaves them: the
\* text lines retyped, the numeric lines retyped, or any subset of the four
\* lines replaced by `[]` (text) and `[0]` (numbers).
EditInputs(log) ==
    LET s == Bracketed(log.subject)
        t == Bracketed(log.topic)
        q == Bracketed(to_string(log.total_questions))
        a == Bracketed(to_string(log.right_answers))
    IN  (EditTextLines(s) \X EditTextLines(t) \X {q} \X {a})
        \cup ({s} \X {t} \X EditNumLines(q) \X EditNumLines(a))
        \cup ({s, Bracketed(<<>>)} \X {t, Bracketed(<<>>)}
                \X {q, Bracketed(<<"0">>)} \X {a, Bracketed(<<"0">>)})

\* readings of the clock's sub-second nanoseconds, and the date of the day
Nanos == {7, 123456789}
Today == <<"11/03/2026">>
\* journal names given on the command line, one of them made of digits
JournalNames == {<<"j">>, <<"2">>}

\* The runs of make_log in the commands, <<clock reading, subject, topic,
\* total, right>>: the subject `a` (50%) at either clock reading, the subject
\* `A` (100%), the subject `type here` typed over the brackets (50%), a
\* total of 0, and the template left as it was shown.
CmdInputs ==
    {inp \in Nanos \X CmdSubjectLines \X CmdTopicLines \X CmdTotalLines \X CmdRightLines :
        \/ inp[2] = Bracketed(<<"a">>)
                /\ inp[4] = Bracketed(<<"2">>) /\ inp[5] = Bracketed(<<"1">>)
        \/ inp[1] = 123456789 /\ inp[2] = Bracketed(<<"A">>)
                /\ inp[4] = Bracketed(<<"2">>) /\ inp[5] = Bracketed(<<"2">>)
        \/ inp[1] = 7 /\ inp[2] = <<"type here">>
                /\ inp[4] = Bracketed(<<"2">>) /\ inp[5] = Bracketed(<<"1">>)
        \/ inp[1] = 7 /\ inp[2] = Bracketed(<<"a">>)
                /\ inp[4] = Bracketed(<<"0">>) /\ inp[5] = Bracketed(<<"1">>)
        \/ inp[1] = 7 /\ inp[2] = Placeholder
                /\ inp[4] = Bracketed(<<"2">>) /\ inp[5] = Bracketed(<<"1">>)}

\* A log entry of a hand-written document; a key that is not in `has` is
\* missing from the entry (or has the wrong type) and the value the record
\* gives it is never read.  The stored percentage (7) matches no counts.
DocLog(has, total) ==
    [has |-> has,
     subject |-> <<"a">>, topic |-> <<"b">>, date |-> Today, uid |-> to_string(7),
     total_questions |-> total, right_answers |-> 1, percentage |-> Num(7)]

DocLogs ==
    {DocLog(LogFields, 2), DocLog(LogFields, 0),
     DocLog(LogFields \ {"percentage"}, 2),
     DocLog(LogFields \ {"right_answers"}, 2),
     DocLog(LogFields \ {"total_questions"}, 2)}

\* journal entries: complete ones, and one without `name`, one whose `logs`
\* is null or missing, one whose `logs` is not an array
DocJournals ==
    {[has_name |-> TRUE, name |-> <<"j">>, logs_kind |-> "array", logs |-> l] :
        l \in SeqsUpTo(DocLogs, MaxDocLogs)}
    \cup
    {[has_name |-> FALSE, name |-> <<>>, logs_kind |-> "array", logs |-> <<>>],
     [has_name |-> TRUE, name |-> <<"j">>, logs_kind |-> "null", logs |-> <<>>],
     [has_name |-> TRUE, name |-> <<"j">>, logs_kind |-> "other", logs |-> <<>>]}

Docs ==
    {[top |-> "array", journals |-> j] : j \in SeqsUpTo(DocJournals, MaxDocJournals)}
    \cup
    {[top |-> t, journals |-> <<>>] : t \in {"object", "invalid", "unreadable"}}

(***************************************************************************)
(* State.                                                                  *)
(*   file  the document on disk                                            *)
(*   mem   the journals in memory at the end of the last load or command   *)
(*   tf    the template text the editor returned                           *)
(*   orig  the log handed to edit_log                                      *)
(*   res   the outcome of the last operation                               *)
(*   arg   the arguments of the last command                               *)
(*   out   the journals the last query printed                             *)
(***************************************************************************)
Res(op, kind, line, log) == [op |-> op, kind |-> kind, line |-> line, log |-> log]

\* the value after the subcommand (a name, a uid or a query) and the `-s` flag
Arg(term, sort) == [term |-> term, sort |-> sort]
NoArg == Arg(<<>>, FALSE)

Init ==
    /\ pc = "start"
    /\ file = EmptyDocument
    /\ mem = <<>>
    /\ tf = <<>>
    /\ orig = NoLog
    /\ res = Res("none", "none", 0, NoLog)
    /\ arg = NoArg
    /\ out = <<>>

(***************************************************************************)
(* SpecInput: one invocation reads one input, a template or a document.    *)
(***************************************************************************)
\* make_log: a new log written through the template
MakeLog ==
    /\ pc = "start"
    /\ \E nanos \in Nanos, inp \in TemplateInputs :
          \E buf \in {UserEdit(make_log_text(<<"j">>, Today),
                               inp[1], inp[2], inp[3], inp[4])} :
          \E r \in {make_log(buf, Today, nanos)} :
              /\ tf' = buf
              /\ res' = Res("make_log", r.kind, r.line, r.log)
    /\ pc' = "made"
    /\ UNCHANGED <<file, mem, orig, arg, out>>

\* the user writes the document with a text editor
WriteDocument ==
    /\ pc = "start"
    /\ file' \in Docs
    /\ pc' = "written"
    /\ UNCHANGED <<mem, tf, orig, res, arg, out>>

\* get_journals on the document, as every command does first
Load ==
    /\ pc = "written"
    /\ \E r \in {get_journals(file)} :
           /\ mem' = r.journals
           /\ res' = Res("get_journals", r.kind, 0, NoLog)
    /\ pc' = "loaded"
    /\ UNCHANGED <<file, tf, orig, arg, out>>

NextInput == MakeLog \/ WriteDocument \/ Load

SpecInput == Init /\ [][NextInput]_vars

(***************************************************************************)
(* Spec: the commands, one invocation after the other, starting from the   *)
(* document that setup_data creates.  A run goes on after every command    *)
(* that exits with success; a command that fails, an edit and a query      *)
(* (which leave the document alone) are the last step of their run.        *)
(***************************************************************************)
RECURSIVE CountLogs(_)
CountLogs(journal_objs) ==
    IF journal_objs = <<>> THEN 0
    ELSE Len(Head(journal_objs).logs) + CountLogs(Tail(journal_objs))

\* journals.push(new_journal) with the new log as the journal's only log
push_journal(journals, name, new_log) ==
    Append(journals, add_log(Journal_new(name), new_log))

\* for journal in journals.iter_mut(): add the log to every journal so named
add_log_to(journals, name, new_log) ==
    [i \in 1..Len(journals) |->
        IF journals[i].name = name THEN add_log(journals[i], new_log)
        ELSE journals[i]]

\* update_json / sync_data: the file is overwritten with the serialized text
sync_data(journals) == serde_json_to_string(journals)

\* the command prints a diagnostic and main returns ExitCode::FAILURE
Fail(op, kind, line) ==
    /\ res' = Res(op, kind, line, NoLog)
    /\ pc' = "failed"
    /\ UNCHANGED <<file, mem, orig, out>>

\* the document is rewritten and main returns ExitCode::SUCCESS
Save(op, journals, log) ==
    /\ file' = sync_data(journals)
    /\ mem' = journals
    /\ res' = Res(op, "Ok", 0, log)
    /\ pc' = "done"
    /\ UNCHANGED <<orig, out>>

\* after ExitCode::SUCCESS the next invocation starts: nothing but the file
\* is carried over
NextInvocation ==
    /\ pc = "done"
    /\ pc' = "start"
    /\ mem' = <<>>
    /\ tf' = <<>>
    /\ res' = Res("none", "none", 0, NoLog)
    /\ arg' = NoArg
    /\ UNCHANGED <<file, orig, out>>

\* `add -j <name>`
AddJournal ==
    /\ pc = "start"
    /\ Len(file.journals) < MaxJournals
    /\ CountLogs(file.journals) < MaxLogs
    /\ \E loaded \in {get_journals(file)} :
          \E name \in JournalNames, inp \in CmdInputs :
          \E buf \in {UserEdit(make_log_text(name, Today),
                               inp[2], inp[3], inp[4], inp[5])} :
          \E r \in {make_log(buf, Today, inp[1])} :
          /\ arg' = Arg(name, FALSE)
          /\ IF loaded.kind # "Ok"
              THEN Fail("add -j", loaded.kind, 0) /\ UNCHANGED tf
              ELSE /\ tf' = buf
                   /\ IF r.kind # "Ok"
                      THEN Fail("add -j", r.kind, r.line)
                      ELSE Save("add -j", push_journal(loaded.journals, name, r.log), r.log)

\* `add <name>`: a journal of that name must exist; when none does the
\* command lists the journals, prints a question and returns Ok(())
AddLog ==
    /\ pc = "start"
    /\ CountLogs(file.journals) < MaxLogs
    /\ \E loaded \in {get_journals(file)} :
          \E name \in JournalNames, inp \in CmdInputs :
          \E buf \in {UserEdit(make_log_text(name, Today),
                               inp[2], inp[3], inp[4], inp[5])} :
          \E r \in {make_log(buf, Today, inp[1])} :
          /\ arg' = Arg(name, FALSE)
          /\ IF loaded.kind # "Ok"
              THEN Fail("add", loaded.kind, 0) /\ UNCHANGED tf
              ELSE IF \A i \in 1..Len(loaded.journals) : loaded.journals[i].name # name
              THEN /\ res' = Res("add", "NoJournal", 0, NoLog)
                   /\ pc' = "done"
                   /\ UNCHANGED <<file, mem, orig, tf, out>>
              ELSE /\ tf' = buf
                   /\ IF r.kind # "Ok"
                      THEN Fail("add", r.kind, r.line)
                      ELSE Save("add", add_log_to(loaded.journals, name, r.log), r.log)

\* `edit <UID>`: edit_log on a log of the loaded document.  The source has
\* edit_log but not the command that calls it, so the effect modelled here is
\* the result edit_log returns; the document is left as it is.
EditLog ==
    /\ pc = "start"
    /\ CountLogs(file.journals) <= MaxEditLogs
    /\ \E loaded \in {get_journals(file)} :
          IF loaded.kind # "Ok"
          THEN Fail("edit", loaded.kind, 0) /\ UNCHANGED <<tf, arg>>
          ELSE \E j \in 1..Len(loaded.journals) :
               \E l \in 1..Len(loaded.journals[j].logs) :
               \E log \in {loaded.journals[j].logs[l]} :
               \E nanos \in Nanos, inp \in EditInputs(log) :
               \E buf \in {UserEdit(edit_log_text(log), inp[1], inp[2], inp[3], inp[4])} :
               \E r \in {edit_log(log, buf, nanos)} :
                   /\ tf' = buf
                   /\ orig' = log
                   /\ res' = Res("edit", r.kind, r.line, r.log)
                   /\ pc' = "edited"
                   /\ arg' = Arg(log.uid, FALSE)
                   /\ UNCHANGED <<file, mem, out>>

(***************************************************************************)
(* Queries.  A text is a sequence of tokens; the tokens of more than one   *)
(* character used here (`type here`, the date) are made of letters,        *)
(* digits, blanks and `/`.                                                  *)
(***************************************************************************)
\* char::to_lowercase on the letters of the alphabet in use
to_lowercase_char(c) ==
    IF c = "A" THEN "a" ELSE IF c = "B" THEN "b" ELSE IF c = "J" THEN "j" ELSE c

to_lowercase(str) == [i \in 1..Len(str) |-> to_lowercase_char(str[i])]

\* true for the empty string too
is_string_numeric(str) == \A i \in 1..Len(str) : IsDigit(str[i])

\* the characters that are neither alphanumeric nor whitespace
Symbols == {"[", "]", "?", "+", ":", "."}

is_string_alphanumeric(str) ==
    \A i \in 1..Len(str) : str[i] = "/" \/ str[i] = "-" \/ str[i] \notin Symbols

\* the number of characters of a text
str_len(str) == Len(str)

\* `percentage as i32`: the cast saturates, and NaN becomes 0
I32Max == 2147483647

as_i32(p) ==
    IF p.k = "nan" THEN 0
    ELSE IF p.k = "inf" THEN I32Max
    ELSE IF p.v > I32Max THEN I32Max
    ELSE p.v

sort_insert_unstable(sorted, x) ==
    LET smaller == {i \in 1..Len(sorted) : as_i32(sorted[i].percentage) <= as_i32(x.percentage)}
        at == IF smaller = {} THEN Len(sorted) + 1
              ELSE CHOOSE i \in smaller : \A j \in smaller : i <= j
    IN  SubSeq(sorted, 1, at - 1) \o <<x>> \o SubSeq(sorted, at, Len(sorted))

\* one step of the stable sort: x goes before the first log of a smaller key
sort_insert(sorted, x) ==
    LET smaller == {i \in 1..Len(sorted) : as_i32(sorted[i].percentage) < as_i32(x.percentage)}
        at == IF smaller = {} THEN Len(sorted) + 1
              ELSE CHOOSE i \in smaller : \A j \in smaller : i <= j
    IN  SubSeq(sorted, 1, at - 1) \o <<x>> \o SubSeq(sorted, at, Len(sorted))

\* logs.sort_by(|b, a| (a.percentage as i32).cmp(&(b.percentage as i32)))
RECURSIVE sort_by(_)
sort_by(logs) ==
    IF logs = <<>> THEN <<>>
    ELSE sort_insert(sort_by(SubSeq(logs, 1, Len(logs) - 1)), logs[Len(logs)])

\* what show_journals prints: the logs of each journal, sorted when SORT is set
show_journals(journals, SORT) ==
    [i \in 1..Len(journals) |->
        IF SORT THEN [journals[i] EXCEPT !.logs = sort_by(@)] ELSE journals[i]]

Shown(kind, journals, log) == [kind |-> kind, journals |-> journals, log |-> log]

query_match_exact_case(str, log) ==
    str = log.subject \/ str = log.topic \/ str = log.date

query_match(str, log) ==
    \/ str = to_lowercase(log.subject)
    \/ str = to_lowercase(log.topic)
    \/ str = to_lowercase(log.date)

\* the loop of query_for over the journals, query_journal collecting matches
RECURSIVE query_for_loop(_, _, _, _)
query_for_loop(journals, str, query_journal, SORT) ==
    IF journals = <<>>
    THEN IF Len(query_journal.logs) > 0
         THEN Shown("Ok", show_journals(<<query_journal>>, SORT), NoLog)
         ELSE Shown("NotFound", <<>>, NoLog)
    ELSE LET journal == Head(journals)
             Match(log) == query_match(str, log)
         IN  IF to_lowercase(journal.name) = str
             THEN Shown("Ok", show_journals(<<journal>>, SORT), NoLog)
             ELSE query_for_loop(Tail(journals), str,
                      [query_journal EXCEPT !.logs = @ \o SelectSeq(journal.logs, Match)],
                      SORT)

query_for(str, loaded, SORT) ==
    IF loaded.kind # "Ok" THEN Shown(loaded.kind, <<>>, NoLog)
    ELSE query_for_loop(loaded.journals, str, Journal_new(<<"Query">>), SORT)

\* the last log of the uid in the first journal that has one
uid_scan_last(journals, uid) ==
    LET Is(log) == log.uid = uid
        hits == [i \in 1..Len(journals) |-> SelectSeq(journals[i].logs, Is)]
        with == {i \in 1..Len(journals) : hits[i] # <<>>}
    IN  IF with = {} THEN <<>>
        ELSE LET j == CHOOSE i \in with : \A k \in with : i <= k
             IN  <<hits[j][Len(hits[j])]>>

\* for journal in journals: the first log of the journal with that uid, and
\* the loop stops at the first journal that has one; <<>> is None
uid_scan(journals, uid) ==
    LET Is(log) == log.uid = uid
        hits == [i \in 1..Len(journals) |-> SelectSeq(journals[i].logs, Is)]
        with == {i \in 1..Len(journals) : hits[i] # <<>>}
    IN  IF with = {} THEN <<>>
        ELSE <<Head(hits[CHOOSE i \in with : \A k \in with : i <= k])>>

\* query_uid of stu/mod.rs
query_uid(uid, loaded) ==
    IF loaded.kind # "Ok" THEN Shown(loaded.kind, <<>>, NoLog)
    ELSE LET log == uid_scan(loaded.journals, uid)
         IN  IF log = <<>> THEN Shown("NotFound", <<>>, NoLog)
             ELSE Shown("Ok", <<>>, log[1])

\* query_uid of main.rs: the length of the uid is checked before the load
main_query_uid(uid, loaded) ==
    IF str_len(uid) # 9 THEN Shown("InvalidUid", <<>>, NoLog)
    ELSE query_uid(uid, loaded)

\* `get <query>` and `get -s <query>`: an all-digit first argument is
\* looked up as a uid and the lookup's result is returned
get(str, SORT, loaded) ==
    IF ~SORT /\ is_string_numeric(str) THEN main_query_uid(str, loaded)
    ELSE IF is_string_alphanumeric(str) THEN query_for(to_lowercase(str), loaded, SORT)
    ELSE Shown("UnknownQuery", <<>>, NoLog)

\* the queries typed on the command line
Terms ==
    {<<"a">>, <<"A">>, <<"B">>, <<"type here">>, <<"j">>, <<"J">>, <<"2">>, <<"x">>, <<"?">>,
     Today} \cup {to_string(n) : n \in Nanos}

\* a query leaves the document alone; the run ends with it
Query(op, r, term, SORT, loaded) ==
    /\ res' = Res(op, r.kind, 0, r.log)
    /\ out' = r.journals
    /\ arg' = Arg(term, SORT)
    /\ mem' = loaded.journals
    /\ pc' = "queried"
    /\ UNCHANGED <<file, tf, orig>>

\* `get [-s] <query>`
Get ==
    /\ pc = "start"
    /\ \E loaded \in {get_journals(file)} :
       \E term \in Terms, SORT \in BOOLEAN :
       \E r \in {get(term, SORT, loaded)} :
           Query("get", r, term, SORT, loaded)

\* query_uid of stu/mod.rs called with a uid
QueryUid ==
    /\ pc = "start"
    /\ \E loaded \in {get_journals(file)} :
       \E nanos \in Nanos :
       \E r \in {query_uid(to_string(nanos), loaded)} :
           Query("query_uid", r, to_string(nanos), FALSE, loaded)

\* the first element of seq that satisfies the test is taken out
remove_first(seq, hit) ==
    IF hit = {} THEN seq
    ELSE LET i == CHOOSE k \in hit : \A m \in hit : k <= m
         IN  SubSeq(seq, 1, i - 1) \o SubSeq(seq, i + 1, Len(seq))

\* for journal in journals.iter_mut(): the first log of that uid is removed
\* from the journal, and the loop goes on with the next journal
remove_log(journals, input_uid) ==
    [j \in 1..Len(journals) |->
        [journals[j] EXCEPT !.logs =
            remove_first(@, {i \in 1..Len(@) : @[i].uid = input_uid})]]

\* the first journal of that name is removed
remove_journal(journals, input_journal_name) ==
    remove_first(journals,
                 {i \in 1..Len(journals) : journals[i].name = input_journal_name})

\* `remove -j <name>`
RemoveJournal ==
    /\ pc = "start"
    /\ \E loaded \in {get_journals(file)} :
       \E name \in JournalNames :
          /\ arg' = Arg(name, FALSE)
          /\ tf' = <<>>
          /\ IF loaded.kind # "Ok"
             THEN Fail("remove -j", loaded.kind, 0)
             ELSE IF \A i \in 1..Len(loaded.journals) : loaded.journals[i].name # name
             THEN Fail("remove -j", "NotFound", 0)
             ELSE Save("remove -j", remove_journal(loaded.journals, name), NoLog)

\* `remove <uid>`
RemoveLog ==
    /\ pc = "start"
    /\ \E loaded \in {get_journals(file)} :
       \E nanos \in Nanos :
       \E input_uid \in {to_string(nanos)} :
          /\ arg' = Arg(input_uid, FALSE)
          /\ tf' = <<>>
          /\ IF loaded.kind # "Ok"
             THEN Fail("remove", loaded.kind, 0)
             ELSE IF uid_scan(loaded.journals, input_uid) = <<>>
             THEN Fail("remove", "NotFound", 0)
             ELSE Save("remove", remove_log(loaded.journals, input_uid), NoLog)

Next ==
    \/ AddJournal \/ AddLog \/ EditLog
    \/ Get \/ QueryUid
    \/ RemoveJournal \/ RemoveLog
    \/ NextInvocation

Spec == Init /\ [][Next]_vars

(***************************************************************************)
(* Properties.                                                             *)
(***************************************************************************)
\* the text denotes a non-negative integer: decimal digits, optionally signed +
NonNegInteger(s) ==
    LET d == IF s # <<>> /\ Head(s) = "+" THEN Tail(s) ELSE s
    IN  /\ d # <<>>
        /\ \A i \in 1..Len(d) : d[i] \in {DigitChars[k] : k \in 1..10}

FieldLabels == {"Subject", "Topic", "Total Questions", "Right Answers"}

\* the text between the outer brackets of a value line
Inside(line) == SubSeq(line, 2, Len(line) - 1)

\* the first log entry of the document, the first that get_journals reads
FirstLogEntry == file.journals[1].logs[1]

ReadsFirstLogEntry ==
    /\ file.top = "array"
    /\ Len(file.journals) >= 1
    /\ file.journals[1].has_name
    /\ file.journals[1].logs_kind = "array"
    /\ Len(file.journals[1].logs) >= 1

\* C1: percentage(right, total) fails with DivisionByZero when total == 0 and
\* returns no number: a template whose Total Questions is 0 yields no Log but
\* the error DivisionByZero, and so does the load of a document whose first
\* log entry has a total of 0.
C1_DivisionByZero ==
    /\ (pc = "made" /\ res.kind = "Ok") => res.log.total_questions # 0
    /\ (pc = "loaded" /\ ReadsFirstLogEntry
            /\ as_u64_or_0(FirstLogEntry, "total_questions") = 0)
          => res.kind = "DivisionByZero"

\* C2: parsing fails with UnmodifiedField whenever the value line of any one of
\* the four fields still reads `[type here]`, whatever the other fields hold.
C2_PlaceholderIsUnmodifiedField ==
    (pc = "made" /\ \E label \in FieldLabels : Value(tf, label) = Placeholder)
        => res.kind = "UnmodifiedField"

C4_RightAtMostTotal ==
    (pc = "made" /\ res.kind = "Ok" /\ res.log.total_questions > 0)
        => res.log.right_answers <= res.log.total_questions

\* what a value line of the edited text stands for: the original value when
\* the line is as rendered, else the text typed between the brackets
EditedText(label, old) ==
    IF Value(tf, label) = Bracketed(old) THEN old ELSE Inside(Value(tf, label))

EditedNumber(label, old) ==
    IF Value(tf, label) = Bracketed(to_string(old)) THEN old
    ELSE DigitsValue(Inside(Value(tf, label)), 0)

\* the line is as rendered, or holds a new value of the field's type that is
\* not the placeholder text
ProperEdit(label, old, numeric) ==
    \/ Value(tf, label) = Bracketed(old)
    \/ /\ Value(tf, label) # Placeholder
       /\ numeric => /\ Inside(Value(tf, label)) # <<>>
                     /\ \A i \in 1..Len(Inside(Value(tf, label))) :
                           IsDigit(Inside(Value(tf, label))[i])

\* C5: template round trip: rendering an existing Log with the edit template
\* and parsing the text back, with some of the four value lines replaced by
\* new bracketed values, yields a Log that has the new value in each changed
\* field and the original value in each unchanged field.
C5_EditRoundTrip ==
    (/\ pc = "edited"
     /\ res.op = "edit"
     /\ ProperEdit("Subject", orig.subject, FALSE)
     /\ ProperEdit("Topic", orig.topic, FALSE)
     /\ ProperEdit("Total Questions", to_string(orig.total_questions), TRUE)
     /\ ProperEdit("Right Answers", to_string(orig.right_answers), TRUE))
        => /\ res.kind = "Ok"
           /\ res.log.subject = EditedText("Subject", orig.subject)
           /\ res.log.topic = EditedText("Topic", orig.topic)
           /\ res.log.total_questions =
                  EditedNumber("Total Questions", orig.total_questions)
           /\ res.log.right_answers =
                  EditedNumber("Right Answers", orig.right_answers)

\* C6: the Log a successful edit returns has the uid and the date of the Log
\* that was edited.
C6_EditKeepsUidAndDate ==
    (pc = "edited" /\ res.op = "edit" /\ res.kind = "Ok")
        => /\ res.log.uid = orig.uid
           /\ res.log.date = orig.date

\* an edit that changed the subject and the total of a log
C6_Witness ==
    /\ pc = "edited"
    /\ res.op = "edit"
    /\ res.kind = "Ok"
    /\ res.log.subject # orig.subject
    /\ res.log.total_questions # orig.total_questions
    /\ res.log.uid = orig.uid
    /\ orig.date = Today

\* C7: save followed by load succeeds and reproduces the journals that were
\* saved, field for field.
C7_SaveThenLoad ==
    (res.kind = "Ok" /\ res.op \in {"add -j", "add"})
        => get_journals(file) = Loaded("Ok", mem)

LacksNameOrLogs(journal_value) ==
    ~journal_value.has_name \/ journal_value.logs_kind = "null"

\* C8: load fails with SchemaError whenever a journal entry lacks `name` or
\* `logs`, and never succeeds with a partial document: a successful load has a
\* top-level array and, for every entry, a `logs` array whose logs were all
\* loaded.
C8_NoPartialLoad ==
    pc = "loaded" =>
        /\ (\E i \in 1..Len(file.journals) : LacksNameOrLogs(file.journals[i]))
              => res.kind = "SchemaError"
        /\ res.kind = "Ok" =>
              /\ file.top = "array"
              /\ Len(mem) = Len(file.journals)
              /\ \A i \in 1..Len(file.journals) :
                    /\ file.journals[i].logs_kind = "array"
                    /\ Len(mem[i].logs) = Len(file.journals[i].logs)

\* the only defect of the document is that log entries lack a count
OnlyCountsMissing ==
    /\ file.top = "array"
    /\ \A i \in 1..Len(file.journals) :
          /\ file.journals[i].has_name
          /\ file.journals[i].logs_kind = "array"
          /\ \A l \in 1..Len(file.journals[i].logs) :
                /\ LogFields \ {"total_questions", "right_answers"}
                      \subseteq file.journals[i].logs[l].has
                /\ as_u64_or_0(file.journals[i].logs[l], "total_questions") > 0

\* C9: a log entry that lacks `total_questions` or `right_answers` does not
\* make the load fail, and the loaded Log carries 0 for the missing field.
C9_MissingCountIsZero ==
    (pc = "loaded" /\ OnlyCountsMissing)
        => /\ res.kind = "Ok"
           /\ Len(mem) = Len(file.journals)
           /\ \A i \in 1..Len(file.journals) :
                 /\ Len(mem[i].logs) = Len(file.journals[i].logs)
                 /\ \A l \in 1..Len(file.journals[i].logs) :
                       /\ mem[i].logs[l].total_questions =
                             as_u64_or_0(file.journals[i].logs[l], "total_questions")
                       /\ mem[i].logs[l].right_answers =
                             as_u64_or_0(file.journals[i].logs[l], "right_answers")

\* the percentage is the f32 value of round(right * 100 / total): the nearest
\* integer, halves away from zero, and NaN or infinity for a total of 0
Derived(log) ==
    LET r == log.right_answers
        t == log.total_questions
        p == log.percentage
    IN  IF t = 0 THEN p = (IF r = 0 THEN NaN ELSE Infinity)
        ELSE /\ p.k = "num"
             /\ 2 * p.v * t - t <= 200 * r
             /\ 200 * r < 2 * p.v * t + t

\* C10: every Log returned by load and by template parsing has a percentage
\* derived from its own counts, whatever percentage the document stored.
C10_PercentageDerived ==
    /\ (pc = "made" /\ res.kind = "Ok") => Derived(res.log)
    /\ (pc = "loaded" /\ res.kind = "Ok") =>
          \A i \in 1..Len(mem) : \A l \in 1..Len(mem[i].logs) :
              /\ Derived(mem[i].logs[l])
              /\ mem[i].logs[l].total_questions > 0

\* a loaded log whose stored percentage differs from the one it carries
C10_Witness ==
    /\ pc = "loaded"
    /\ res.kind = "Ok"
    /\ Len(mem) >= 1
    /\ Len(mem[1].logs) >= 1
    /\ "percentage" \in FirstLogEntry.has
    /\ FirstLogEntry.percentage = Num(7)
    /\ mem[1].logs[1].percentage = Num(50)

\* the logs of the document, in document order
RECURSIVE AllLogs(_)
AllLogs(journals) ==
    IF journals = <<>> THEN <<>>
    ELSE Head(journals).logs \o AllLogs(Tail(journals))

\* C11: every uid in the document is unique across all journals: after any
\* sequence of successful add-journal, add-log, edit and remove commands
\* starting from the empty document, no two logs have the same uid.
C11_UidUnique ==
    \A i, k \in 1..Len(AllLogs(file.journals)) :
        i # k => AllLogs(file.journals)[i].uid # AllLogs(file.journals)[k].uid

\* C12: journal names are a unique key: after any sequence of successful
\* commands starting from the empty document no two journals of the document
\* have the same name.
C12_JournalNameUnique ==
    \A i, k \in 1..Len(file.journals) :
        i # k => file.journals[i].name # file.journals[k].name

\* C13: every uid that a new log is given is a string of exactly 9
\* characters, all of them decimal digits.
C13_UidNineDigits ==
    \A i \in 1..Len(AllLogs(file.journals)) :
        /\ Len(AllLogs(file.journals)[i].uid) = 9
        /\ \A c \in 1..9 : IsDigit(AllLogs(file.journals)[i].uid[c])

\* the indices of the logs of the loaded document that have the uid asked for
UidHits == {i \in 1..Len(AllLogs(mem)) : AllLogs(mem)[i].uid = arg.term}

\* the lookup by uid was made on a loaded document
UidLookupMade ==
    /\ pc = "queried"
    /\ res.kind \in {"Ok", "NotFound"}
    /\ \/ res.op = "query_uid"
       \/ res.op = "get" /\ ~arg.sort /\ is_string_numeric(arg.term)

\* C14: the lookup by uid returns the first log, in document order, whose uid
\* is the given uid whenever some log has it, and fails with NotFound exactly
\* when no log of any journal has it.
C14_FirstLogOfUid ==
    UidLookupMade =>
        IF UidHits = {} THEN res.kind = "NotFound"
        ELSE /\ res.kind = "Ok"
             /\ \E i \in UidHits :
                   /\ \A k \in UidHits : i <= k
                   /\ res.log = AllLogs(mem)[i]

\* two different logs of one journal have the uid, and the earlier was returned
C14_Witness ==
    /\ UidLookupMade
    /\ res.kind = "Ok"
    /\ \E j \in 1..Len(mem) : \E i, k \in 1..Len(mem[j].logs) :
          /\ i < k
          /\ mem[j].logs[i].uid = arg.term
          /\ mem[j].logs[k].uid = arg.term
          /\ mem[j].logs[i] # mem[j].logs[k]
          /\ res.log = mem[j].logs[i]

\* the pairs of letters that differ in case only
CasePairs == {{"a", "A"}, {"b", "B"}, {"j", "J"}}

\* equal but for the case of the letters
SameText(s, t) ==
    /\ Len(s) = Len(t)
    /\ \A i \in 1..Len(s) : s[i] = t[i] \/ {s[i], t[i]} \in CasePairs

\* the log matches the term of the query in its subject, topic or date
TermMatches(log) ==
    \/ SameText(arg.term, log.subject)
    \/ SameText(arg.term, log.topic)
    \/ SameText(arg.term, log.date)

\* a free-text search was made on a loaded document
SearchMade ==
    /\ pc = "queried"
    /\ res.op = "get"
    /\ res.kind \in {"Ok", "NotFound"}
    /\ arg.sort \/ ~is_string_numeric(arg.term)

TermIsJournalName == \E j \in 1..Len(mem) : SameText(arg.term, mem[j].name)

\* C15: a search whose term is not a journal name, without sorting, returns
\* exactly the logs of all journals whose subject, topic or date matches the
\* term case-insensitively, each once, in encounter order.
C15_SearchResult ==
    (SearchMade /\ ~arg.sort /\ ~TermIsJournalName) =>
        /\ res.kind = "Ok" =>
              /\ Len(out) = 1
              /\ out[1].logs = SelectSeq(AllLogs(mem), TermMatches)
        /\ SelectSeq(AllLogs(mem), TermMatches) # <<>> => res.kind = "Ok"

\* a log was found through a field that differs from the term in case, and
\* another log of the document was left out
C15_Witness ==
    /\ SearchMade /\ ~arg.sort /\ ~TermIsJournalName
    /\ res.kind = "Ok"
    /\ \E i \in 1..Len(out[1].logs) :
          /\ out[1].logs[i].subject # arg.term
          /\ out[1].logs[i].topic # arg.term
          /\ out[1].logs[i].date # arg.term
    /\ Len(out[1].logs) < Len(AllLogs(mem))

\* C16: a search never succeeds with an empty result, the journal-name
\* short-circuit included: it fails with NotFound whenever the result it
\* would return contains no log.
C16_NoEmptyResult ==
    (SearchMade /\ res.kind = "Ok") => \E j \in 1..Len(out) : out[j].logs # <<>>

\* the result of the same query without the sort flag
Unsorted == query_for(to_lowercase(arg.term), Loaded("Ok", mem), FALSE).journals[1].logs

\* the percentage cut to an integer
Truncated(log) == log.percentage.v

\* the logs of that truncated percentage, in the order they have in logs
OfScore(logs, score) ==
    LET Has(log) == Truncated(log) = score
    IN  SelectSeq(logs, Has)

\* C17: with the sort flag the result is a permutation of the unsorted result
\* in descending order of the integer-truncated percentage, and logs of the
\* same truncated percentage keep the order they had in the unsorted result.
C17_SortedStable ==
    (SearchMade /\ arg.sort /\ res.kind = "Ok") =>
        /\ Len(out) = 1
        /\ Len(out[1].logs) = Len(Unsorted)
        /\ \A i, k \in 1..Len(out[1].logs) :
              i < k => Truncated(out[1].logs[i]) >= Truncated(out[1].logs[k])
        /\ \A i \in 1..Len(Unsorted) :
              OfScore(out[1].logs, Truncated(Unsorted[i]))
                  = OfScore(Unsorted, Truncated(Unsorted[i]))

\* the sort moved a log
C17_Witness ==
    /\ SearchMade /\ arg.sort /\ res.kind = "Ok"
    /\ out[1].logs # Unsorted

\* C18: a `get` query made only of digits that does not yield a log by the
\* uid lookup falls back to the free-text search, so an all-digit term that
\* equals some log's subject or topic or a journal name is found.
C18_DigitsFallBack ==
    (/\ pc = "queried" /\ res.op = "get" /\ ~arg.sort
     /\ arg.term # <<>> /\ is_string_numeric(arg.term)
     /\ get_journals(file).kind = "Ok"
     /\ \/ \E j \in 1..Len(mem) : mem[j].name = arg.term
        \/ \E i \in 1..Len(AllLogs(mem)) :
              \/ AllLogs(mem)[i].subject = arg.term
              \/ AllLogs(mem)[i].topic = arg.term)
        => res.kind = "Ok"

\* C19: every Log that template parsing returns has a non-empty subject and a
\* non-empty topic taken from the template, never the sentinel `unknown`.
C19_SubjectAndTopicGiven ==
    (pc = "made" /\ res.kind = "Ok") =>
        /\ res.log.subject \notin {<<>>, Unknown}
        /\ res.log.topic \notin {<<>>, Unknown}

\* C20: no partial success: an add or remove command that does not complete
\* its mutation leaves the document file as it was and exits with a non-zero
\* status.
C20_NoPartialSuccess ==
    [][(pc = "start" /\ res'.op \in {"add -j", "add", "remove -j", "remove"})
          => \/ res'.kind = "Ok" /\ pc' = "done"
             \/ file' = file /\ pc' = "failed"]_vars

\* C21: the document stays loadable: after any sequence of commands that
\* each exited successfully, starting from the freshly created empty
\* document, the next invocation's load of the file succeeds.
C21_StaysLoadable == get_journals(file).kind = "Ok"

\* the journals of a document without the logs of that uid
WithoutUid(journals, uid) ==
    LET Keep(log) == log.uid # uid
    IN  [j \in 1..Len(journals) |-> [journals[j] EXCEPT !.logs = SelectSeq(@, Keep)]]

\* C22: remove <uid> identifies logs strictly by uid: when some log of a
\* loadable document has the uid the command succeeds and the rewritten
\* document is the old one without the logs of that uid, every other log and
\* every journal in place and in order; when no log has it the command fails
\* with NotFound.
C22_RemoveByUid ==
    [][(pc = "start" /\ res'.op = "remove" /\ get_journals(file).kind = "Ok")
          => IF \E i \in 1..Len(AllLogs(file.journals)) :
                    AllLogs(file.journals)[i].uid = arg'.term
             THEN /\ res'.kind = "Ok"
                  /\ file' = [file EXCEPT !.journals = WithoutUid(@, arg'.term)]
             ELSE res'.kind = "NotFound"]_vars

====
